---- MODULE Spec2Model ----
(***************************************************************************)
(* The filter / sort / paginate / report pipeline of the scam-detection    *)
(* dashboard, in its two variants: src/app.py ("app") and                  *)
(* src/app_demo.py ("demo").  A Streamlit script is re-run from top to     *)
(* bottom on every interaction: every action below is one interaction's    *)
(* handler followed by the re-run of the pipeline over st.session_state.   *)
(* Of app_demo.py the overview (table) view is modelled; its analytics and *)
(* case-investigation views are outside the model.                          *)
(***************************************************************************)
EXTENDS Integers, Sequences, FiniteSets, TLC

VARIABLES variant, data, current_page, rows_per_page, scam_filter,
          sort_column, ascending, view, selection, lastOp, calc

vars == <<variant, data, current_page, rows_per_page, scam_filter,
          sort_column, ascending, view, selection, lastOp, calc>>

session_vars == <<variant, data, current_page, rows_per_page, scam_filter,
                  sort_column, ascending, view, selection, lastOp>>

----------------------------------------------------------------------------
(* Bounds of the model. *)

\* longest `data` array a response of the data source carries
MaxRecs == 2

\* longest table handed to the paginator on its own
MaxLen == 12

\* largest page size handed to the paginator on its own
MaxPageSize == 5

\* longest table handed to the sorter on its own
MaxSortRecs == 3

\* longest table handed to the filter on its own
MaxFilterRecs == 2

\* longest table handed to the sorter of a text column on its own
MaxTextRecs == 5

----------------------------------------------------------------------------
(* JSON values.  A value keeps its Python type, because 7 == "7" is False  *)
(* in Python: ty is "int", "str" or "none", s is the text str() gives.     *)

IntV(s) == [ty |-> "int", s |-> s]
StrV(s) == [ty |-> "str", s |-> s]
NoneV == [ty |-> "none", s |-> "None"]

\* str(v), Series.astype(str)
PyStr(v) == v.s

Min(a, b) == IF a < b THEN a ELSE b
Max(a, b) == IF a > b THEN a ELSE b

\* math.ceil(total_rows / rows_per_page) for total_rows >= 0, rows_per_page >= 1
Ceil(total_rows, per_page) == (total_rows + per_page - 1) \div per_page

\* s[start:end] of a Python sequence / DataFrame.iloc[start:end], 0 <= start
Slice(s, start, end) == SubSeq(s, start + 1, Min(end, Len(s)))

----------------------------------------------------------------------------
(* Paginator: paginate_dataframe (app) and the slice of render_data_table  *)
(* (demo) compute the same slice.                                          *)

paginate_dataframe_offbyone(df, page_size, page_num) ==
    Slice(df, (page_num - 1) * page_size, (page_num - 1) * page_size + page_size - 1)

paginate_dataframe(df, page_size, page_num) ==
    LET start_idx == (page_num - 1) * page_size
        end_idx == start_idx + page_size
    IN  Slice(df, start_idx, end_idx)

total_pages_of(df, page_size) == Ceil(Len(df), page_size)

----------------------------------------------------------------------------
(* Text and number conversions, on the finite universe of texts the model  *)
(* draws its inputs from.                                                   *)

BoolV(b) == [ty |-> "bool", s |-> IF b THEN "True" ELSE "False"]

\* a float that may be NaN (a timestamp that may be NaT)
Num(n) == [nan |-> FALSE, v |-> n]
NaN == [nan |-> TRUE, v |-> 0]

\* str.upper()
Upper(s) ==
    CASE s = "high" -> "HIGH"
      [] s = "medium" -> "MEDIUM"
      [] s = "Medium" -> "MEDIUM"
      [] s = "low" -> "LOW"
      [] s = "Low" -> "LOW"
      [] s = " High " -> " HIGH "
      [] s = " low" -> " LOW"
      [] s = "critical" -> "CRITICAL"
      [] s = "n/a" -> "N/A"
      [] s = "None" -> "NONE"
      [] OTHER -> s

\* str.strip()
Strip(s) ==
    CASE s = " HIGH " -> "HIGH"
      [] s = "HIGH " -> "HIGH"
      [] s = " LOW" -> "LOW"
      [] s = " High " -> "High"
      [] s = " low" -> "low"
      [] s = " " -> ""
      [] OTHER -> s

\* the number a text parses to under pd.to_numeric(errors="coerce")
ParseNum(s) ==
    CASE s = "0" -> Num(0)
      [] s = "1" -> Num(1)
      [] s = "2" -> Num(2)
      [] s = "3" -> Num(3)
      [] s = "7" -> Num(7)
      [] s = "10" -> Num(10)
      [] s = "-1" -> Num(-1)
      [] s = "-2" -> Num(-2)
      [] OTHER -> NaN

\* a number with a fractional part, as JSON gives it
FloatV(s) == [ty |-> "float", s |-> s]

\* the number a text parses to, counted in tenths so that fractions have a value
ParseTenths(s) ==
    CASE s = "2.7" -> Num(27)
      [] s = "0.5" -> Num(5)
      [] s = "-0.5" -> Num(-5)
      [] s = "-1.5" -> Num(-15)
      [] OTHER -> IF ParseNum(s).nan THEN NaN ELSE Num(10 * ParseNum(s).v)

\* pd.to_numeric(v, errors="coerce") of one cell, counted in tenths
to_numeric(v) ==
    CASE v.ty = "int" -> ParseTenths(v.s)
      [] v.ty = "str" -> ParseTenths(v.s)
      [] v.ty = "float" -> ParseTenths(v.s)
      [] v.ty = "bool" -> Num(IF v.s = "True" THEN 10 ELSE 0)
      [] OTHER -> NaN

\* astype(int) of a float given in tenths: the fraction is cut off towards zero
astype_int(tenths) ==
    IF tenths >= 0 THEN tenths \div 10 ELSE -((-tenths) \div 10)

\* pd.to_numeric(col, errors="coerce").fillna(0).astype(int) of one cell
to_int_or_zero(v) == IF to_numeric(v).nan THEN 0 ELSE astype_int(to_numeric(v).v)

(* Instants are counted in ticks, TicksPerDay to the day: tick 0 of a day  *)
(* is datetime.time.min and the last tick is datetime.time.max.            *)
TicksPerDay == 3
start_of_day(d) == d * TicksPerDay
end_of_day(d) == d * TicksPerDay + (TicksPerDay - 1)


\* a cell of a datetime column: the instant at, or NaT
TsV(at) == [ty |-> "ts", s |-> "", at |-> at]

\* a variant that parses texts only and knows no timestamp
to_datetime_text_only(v) ==
    IF v.ty # "str" THEN NaN
    ELSE CASE v.s = "2024-03-01T00:00:00Z" -> Num(start_of_day(1))
           [] v.s = "2024-03-01T12:00:00Z" -> Num(start_of_day(1) + 1)
           [] v.s = "2024-03-02T23:59:59.999999Z" -> Num(end_of_day(2))
           [] v.s = "2024-03-03T12:00:00Z" -> Num(start_of_day(3) + 1)
           [] OTHER -> NaN

\* pd.to_datetime(text, errors="coerce", utc=True) of one cell
to_datetime(v) ==
    IF v.ty = "ts" THEN v.at
    ELSE IF v.ty # "str" THEN NaN
    ELSE CASE v.s = "2024-03-01T00:00:00Z" -> Num(start_of_day(1))
           [] v.s = "2024-03-01T12:00:00Z" -> Num(start_of_day(1) + 1)
           [] v.s = "2024-03-02T23:59:59.999999Z" -> Num(end_of_day(2))
           [] v.s = "2024-03-03T12:00:00Z" -> Num(start_of_day(3) + 1)
           [] OTHER -> NaN

----------------------------------------------------------------------------
(* Records.  A raw record is one element of the `data` array as the data   *)
(* source sent it; st.session_state.data holds raw records.  A row is one  *)
(* row of the DataFrame built from them on every run: idx is its index     *)
(* label, i.e. the record's position in st.session_state.data.             *)

RawRec(id, is_scam, reported, threat_level, date_scraped) ==
    [id |-> id, is_scam |-> is_scam, reported |-> reported,
     threat_level |-> threat_level, date_scraped |-> date_scraped]

\* app.py lines 639-666: dates, id as text, reported as an integer
normalize_app(rec, i) ==
    [idx |-> i,
     id |-> PyStr(rec.id),
     is_scam |-> rec.is_scam,
     reported |-> to_int_or_zero(rec.reported),
     threat_level |-> rec.threat_level,
     date_scraped |-> to_datetime(rec.date_scraped)]

\* preprocess_dataframe: as above, and is_scam.fillna(False).astype(bool)
preprocess_row(rec, i) ==
    [idx |-> i,
     id |-> PyStr(rec.id),
     is_scam |-> IF rec.is_scam.ty = "none" THEN BoolV(FALSE) ELSE rec.is_scam,
     reported |-> to_int_or_zero(rec.reported),
     threat_level |-> rec.threat_level,
     date_scraped |-> to_datetime(rec.date_scraped)]

\* pd.DataFrame(st.session_state.data) and its normalization, per variant
dataframe(v, recs) ==
    [i \in 1..Len(recs) |->
        IF v = "app" THEN normalize_app(recs[i], i) ELSE preprocess_row(recs[i], i)]

----------------------------------------------------------------------------
(* Threat category.  The raw threat level is text or null; astype(str)     *)
(* turns null into the text "None".                                         *)

BaseLevels == {"HIGH", "MEDIUM", "LOW"}

\* a variant that does not trim
threat_category_untrimmed(raw) ==
    LET tl_upper == Upper(PyStr(raw))
        other_mask == (tl_upper \notin BaseLevels) \/ raw.ty = "none" \/ tl_upper = ""
    IN  IF other_mask THEN "OTHER" ELSE tl_upper

\* the category the threat filter uses, app.py 676-695 and apply_filters 248-250
threat_category(raw) ==
    LET tl_upper == Strip(Upper(PyStr(raw)))
        other_mask == (tl_upper \notin BaseLevels) \/ raw.ty = "none" \/ tl_upper = ""
    IN  IF other_mask THEN "OTHER" ELSE tl_upper

\* the category the table of app.py shows and sorts by, lines 949-962
threat_display_app(raw) ==
    LET tl_disp == Strip(Upper(PyStr(raw)))
    IN  IF tl_disp \in BaseLevels THEN tl_disp ELSE "OTHER"

\* the category the table of app_demo.py shows and sorts by, lines 627-631
threat_display_demo(raw) ==
    LET threat_formatted == Upper(PyStr(raw))
    IN  IF threat_formatted \in BaseLevels THEN threat_formatted ELSE "OTHER"

threat_display(v, raw) ==
    IF v = "app" THEN threat_display_app(raw) ELSE threat_display_demo(raw)

----------------------------------------------------------------------------
(* Filter engine.  Criteria: scam_filter, threat_filter (a set of          *)
(* categories), date_range (unset, or two days in the order the user gave  *)
(* them) and include_missing_dates.                                         *)

NoDateRange == [set |-> FALSE, a |-> 0, b |-> 0]
DateRange(a, b) == [set |-> TRUE, a |-> a, b |-> b]

Criteria(sf, tf, dr, inc) ==
    [scam_filter |-> sf, threat_filter |-> tf, date_range |-> dr,
     include_missing_dates |-> inc]

scam_pass(r, sf) ==
    CASE sf = "Scam Only" -> r.is_scam = BoolV(TRUE)
      [] sf = "Legit Only" -> r.is_scam = BoolV(FALSE)
      [] OTHER -> TRUE

\* a variant that keeps the rows outside the selected categories
threat_pass_excluding(r, tf) == tf = {} \/ threat_category(r.threat_level) \notin tf

\* `if threat_filter and ...`: an empty selection filters nothing
threat_pass(r, tf) == tf = {} \/ threat_category(r.threat_level) \in tf

date_pass(r, dr, inc) ==
    IF ~dr.set THEN TRUE
    ELSE LET start_date == IF dr.b < dr.a THEN dr.b ELSE dr.a
             end_date == IF dr.b < dr.a THEN dr.a ELSE dr.b
             ds == r.date_scraped
             base_mask == ~ds.nan /\ ds.v >= start_of_day(start_date)
                                  /\ ds.v <= end_of_day(end_date)
         IN  IF inc THEN base_mask \/ ds.nan ELSE base_mask

\* "Apply filters" of app.py, lines 668-728
filter_app(df, c) ==
    SelectSeq(df, LAMBDA r : /\ scam_pass(r, c.scam_filter)
                             /\ threat_pass(r, c.threat_filter)
                             /\ date_pass(r, c.date_range, c.include_missing_dates))

(* apply_filters of app_demo.py.  The date block calls                     *)
(* tz_localize(ds.dt.tz.zone): the UTC tzinfo has a .zone only when pandas *)
(* builds it with pytz; otherwise the AttributeError is caught at line 280 *)
(* and the date criterion is skipped.  tz_zone tells which build runs.     *)
apply_filters(df, c, tz_zone) ==
    SelectSeq(df, LAMBDA r : /\ scam_pass(r, c.scam_filter)
                             /\ threat_pass(r, c.threat_filter)
                             /\ (tz_zone => date_pass(r, c.date_range,
                                                      c.include_missing_dates)))

filtered(v, df, c, tz_zone) ==
    IF v = "app" THEN filter_app(df, c) ELSE apply_filters(df, c, tz_zone)

----------------------------------------------------------------------------
(* The table: display columns and the sort engine.                         *)

truthy(v) == v.ty = "bool" /\ v.s = "True"

(* One row of display_df.  scam_label is the column "Status" of app.py     *)
(* ("SCAM" / "LEGIT") and "Classification" of app_demo.py ("THREAT" /      *)
(* "SAFE"); reported_label is the column "Reported" of app.py (a tick, a   *)
(* cross, or "-" for a legit ad) and "Status" of app_demo.py.              *)
display_row_app(r) ==
    LET status == IF truthy(r.is_scam) THEN "SCAM" ELSE "LEGIT"
    IN  [idx |-> r.idx, id |-> r.id, date_scraped |-> r.date_scraped,
         threat_level |-> threat_display_app(r.threat_level),
         scam_label |-> status,
         reported_label |-> IF r.reported = 1 THEN "tick"
                            ELSE IF status # "LEGIT" THEN "cross" ELSE "-"]

display_row_demo(r) ==
    [idx |-> r.idx, id |-> r.id, date_scraped |-> r.date_scraped,
     threat_level |-> threat_display_demo(r.threat_level),
     scam_label |-> IF truthy(r.is_scam) THEN "THREAT" ELSE "SAFE",
     reported_label |-> IF r.reported = 1 THEN "Reported" ELSE "Pending"]

display_df(v, df) ==
    [i \in 1..Len(df) |->
        IF v = "app" THEN display_row_app(df[i]) ELSE display_row_demo(df[i])]

\* the sortable columns of the table, by the names the variant gives them
SortColumns(v) ==
    IF v = "app" THEN {"id", "threat_level", "date_scraped", "Status", "Reported"}
    ELSE {"id", "threat_level", "date_scraped", "Classification", "Status"}

\* the text in column col of a display row (a date column holds timestamps)
cell(v, row, col) ==
    CASE col = "id" -> row.id
      [] col = "threat_level" -> row.threat_level
      [] col = "Classification" -> row.scam_label
      [] col = "Reported" -> row.reported_label
      [] col = "Status" -> IF v = "app" THEN row.scam_label ELSE row.reported_label
      [] col = "date_scraped" -> ""

\* the place of a text in the order of Python's str comparison
StrRank(s) ==
    CASE s = "" -> 0
      [] s = "-" -> 1
      [] s = "1" -> 2
      [] s = "10" -> 3
      [] s = "2" -> 4
      [] s = "3" -> 5
      [] s = "7" -> 6
      [] s = "B" -> 7
      [] s = "HIGH" -> 8
      [] s = "LOW" -> 9
      [] s = "MEDIUM" -> 10
      [] s = "OTHER" -> 11
      [] s = "b" -> 12
      [] s = "bad" -> 13

NumericCount(v, rows, col) ==
    Cardinality({i \in 1..Len(rows) : ~ParseNum(cell(v, rows[i], col)).nan})

NumericValues(v, rows, col) ==
    {ParseNum(cell(v, rows[i], col)).v :
        i \in {j \in 1..Len(rows) : ~ParseNum(cell(v, rows[j], col)).nan}}

SetMax(S) == CHOOSE x \in S : \A y \in S : y <= x
SetMin(S) == CHOOSE x \in S : \A y \in S : x <= y

\* app.py lines 1008-1030: the sort key of every row, as a number
sort_key_app(rows, col, asc) ==
    [i \in 1..Len(rows) |->
        LET text == cell("app", rows[i], col)
        IN  CASE col = "Status" ->
                   Num(CASE text = "SCAM" -> 0 [] text = "LEGIT" -> 1 [] OTHER -> 99)
              [] col = "Reported" ->
                   Num(CASE text = "tick" -> 0 [] text = "cross" -> 1 [] OTHER -> 99)
              [] col = "date_scraped" -> rows[i].date_scraped
              [] OTHER ->
                   IF 5 * NumericCount("app", rows, col) >= 4 * Len(rows)
                   THEN IF ~ParseNum(text).nan THEN ParseNum(text)
                        ELSE IF asc
                             THEN Num(SetMax(NumericValues("app", rows, col)) + 1)
                             ELSE Num(SetMin(NumericValues("app", rows, col)) - 1)
                   ELSE Num(StrRank(text))]

\* render_data_table lines 670-691: the sort key of every row, as a number
sort_key_demo(rows, col, asc) ==
    [i \in 1..Len(rows) |->
        LET text == cell("demo", rows[i], col)
        IN  CASE col = "Classification" ->
                   Num(CASE text = "THREAT" -> 0 [] text = "SAFE" -> 1 [] OTHER -> 999)
              [] col = "Status" ->
                   Num(CASE text = "Reported" -> 0 [] text = "Pending" -> 1
                         [] OTHER -> 999)
              [] col = "threat_level" ->
                   Num(CASE text = "HIGH" -> 0 [] text = "MEDIUM" -> 1
                         [] text = "LOW" -> 2 [] text = "OTHER" -> 3 [] OTHER -> 999)
              [] col = "date_scraped" -> rows[i].date_scraped
              [] OTHER ->
                   IF 2 * NumericCount("demo", rows, col) > Len(rows)
                   THEN IF ~ParseNum(text).nan THEN ParseNum(text)
                        ELSE Num(IF asc THEN -999 ELSE 999999)
                   ELSE Num(StrRank(text))]

Reverse(s) == [i \in 1..Len(s) |-> s[Len(s) + 1 - i]]

Perms(n) == {p \in [1..n -> 1..n] : \A i, j \in 1..n : p[i] = p[j] => i = j}

(* DataFrame.sort_values(kind="mergesort", ascending=asc), NaN last: the   *)
(* positions of the rows in their new order.  pandas sorts a descending    *)
(* column by reversing, sorting stably and reversing back, which keeps     *)
(* equal keys in their input order.                                         *)
mergesort_order(key, asc) ==
    LET n == Len(key)
        Before(j, i) ==
            /\ j # i
            /\ IF key[j].nan # key[i].nan THEN key[i].nan
               ELSE IF key[j].nan THEN j < i
               ELSE \/ IF asc THEN key[j].v < key[i].v ELSE key[j].v > key[i].v
                    \/ key[j].v = key[i].v /\ j < i
        Rank(i) == 1 + Cardinality({j \in 1..n : Before(j, i)})
    IN  [p \in 1..n |-> CHOOSE i \in 1..n : Rank(i) = p]

(* np.argsort(values) with numpy's default quicksort, which promises no    *)
(* order among equal keys: every ascending order of the keys, NaN after    *)
(* the numbers, is a possible result.                                       *)
argsort_results(key) ==
    {p \in Perms(Len(key)) :
        \A a, b \in 1..Len(key) : a < b =>
            \/ key[p[b]].nan
            \/ ~key[p[a]].nan /\ key[p[a]].v <= key[p[b]].v}

\* the positions of the keys that are not NaN, in order
notna_positions(key) ==
    LET S == {i \in 1..Len(key) : ~key[i].nan}
    IN  [t \in 1..Cardinality(S) |->
            CHOOSE i \in S : Cardinality({j \in S : j < i}) = t - 1]

(* Series.argsort().  Without NaN it is np.argsort.  With NaN the result   *)
(* depends on the pandas that runs: before 3.0 the keys that are not NaN   *)
(* are sorted on their own and their ranks written back in place, with -1  *)
(* at every NaN (and iloc[-1] is the last row); from 3.0 on NaN sorts      *)
(* last.  Both are possible results.                                        *)
series_argsort(key) ==
    LET n == Len(key)
        nn == notna_positions(key)
        m == Len(nn)
        compact == [t \in 1..m |-> key[nn[t]]]
        slot(i) == CHOOSE t \in 1..m : nn[t] = i
    IN  IF m = n THEN argsort_results(key)
        ELSE {[i \in 1..n |-> IF key[i].nan THEN n ELSE q[slot(i)]] :
                  q \in argsort_results(compact)}
             \cup argsort_results(key)

\* display_df.iloc[sort_key.argsort()[::-1 if not ascending else 1]]
argsort_orders(key, asc) ==
    {IF asc THEN p ELSE Reverse(p) : p \in series_argsort(key)}

\* the orders the table may show the rows in: positions into rows
sort_orders(v, rows, col, asc) ==
    IF v = "app" THEN {mergesort_order(sort_key_app(rows, col, asc), asc)}
    ELSE argsort_orders(sort_key_demo(rows, col, asc), asc)

----------------------------------------------------------------------------
(* Session state and the re-run of the pipeline.                           *)
(*                                                                          *)
(*   data          st.session_state.data: None (loaded = FALSE) or the     *)
(*                 list of raw records of the last successful load         *)
(*   view          the rows of the sorted display_df of the last run, each *)
(*                 named by its index label (its position in data)         *)
(*   selection     event.selection.rows: 0, or the page-local position of  *)
(*                 the selected row (1 is the first row of the page)       *)
(*   lastOp        what the last interaction was and how it ended          *)

NoData == [loaded |-> FALSE, recs |-> <<>>]
Loaded(recs) == [loaded |-> TRUE, recs |-> recs]

\* the page sizes offered (5, 10, 20, 50 and 10, 25, 50, 100), scaled down
RowsOptions == {1, 2}

\* the session varies the classification filter only
session_criteria(sf) == Criteria(sf, {}, NoDateRange, TRUE)

\* df as the table and the row selection see it: normalized and filtered
current_df(v, d, sf) == filtered(v, dataframe(v, d.recs), session_criteria(sf), TRUE)

\* app.py lines 1039-1043
reset_page_app(page, total) ==
    IF page > total /\ total > 0 THEN 1 ELSE page

\* render_data_table lines 703-704
reset_page_demo(page, total) ==
    IF page > total THEN Max(1, total) ELSE page

(* The page number a run leaves, given the one it found stored: df is the  *)
(* filtered frame.  render_data_table returns at line 609, before the      *)
(* check, when no record passes the filters.                                *)
page_after_render(v, df, page, rows) ==
    IF v = "demo" /\ Len(df) = 0 THEN page
    ELSE IF v = "app" THEN reset_page_app(page, total_pages_of(df, rows))
    ELSE reset_page_demo(page, total_pages_of(df, rows))

(* One run of the script over the session state: the sorted table and the  *)
(* page number it leaves.  Nothing is rendered without data, and           *)
(* render_data_table returns at once when no record passes the filters.    *)
Run(v, d, page, rows, sf, col, asc) ==
    LET df == current_df(v, d, sf)
        disp == display_df(v, df)
    IN  IF d.recs = <<>> \/ (v = "demo" /\ Len(df) = 0)
        THEN {[view |-> <<>>, page |-> page]}
        ELSE {[view |-> [a \in 1..Len(disp) |-> disp[o[a]].idx],
               page |-> page_after_render(v, df, page, rows)] :
                 o \in sort_orders(v, disp, col, asc)}

\* the rows of the page on screen
page_rows == paginate_dataframe(view, rows_per_page, current_page)

\* the table is on screen (and with it the sort and page controls)
table_rendered ==
    /\ data.recs # <<>>
    /\ variant = "demo" => Len(current_df(variant, data, scam_filter)) > 0

----------------------------------------------------------------------------
(* Row selection.                                                          *)

\* the position in data of the first row of df whose id is the text id, or 0
first_with_id(df, id) ==
    IF \E i \in 1..Len(df) : df[i].id = id
    THEN df[CHOOSE i \in 1..Len(df) :
                df[i].id = id /\ \A j \in 1..(i - 1) : df[j].id # id].idx
    ELSE 0

(* app.py lines 1069-1093: the id shown in the selected row is looked up   *)
(* in df; the detail view shows the first row carrying it.                  *)
selected_row_app(df, shown_id) ==
    IF shown_id = "" THEN 0 ELSE first_with_id(df, shown_id)

(* render_data_table lines 758-762: the page-local position is added to    *)
(* start_idx and used as a position in df, the filtered frame before       *)
(* sorting.  k is 1-based here, selected_idx 0-based there.                 *)
selected_case_demo(df, page, rows, k) ==
    LET start_idx == (page - 1) * rows
        actual_idx == start_idx + (k - 1)
    IN  IF actual_idx + 1 <= Len(df) THEN df[actual_idx + 1].idx ELSE 0

\* the position in data of the record the detail view shows for row k
detail_of(k) ==
    LET df == current_df(variant, data, scam_filter)
    IN  IF variant = "app"
        THEN selected_row_app(df, PyStr(data.recs[page_rows[k]].id))
        ELSE selected_case_demo(df, current_page, rows_per_page, k)

(* The report trigger: show_detailed_view lines 502-515 and                *)
(* render_quick_actions lines 789-802.  row is a row of df.                 *)
\* a trigger shown whatever the flag
report_exposed_app_always(row) == TRUE

report_exposed_app(row) == row.reported # 1

report_exposed_demo(row) == ~(row.reported = 1) /\ row.id # ""

report_exposed(i) ==
    LET row == dataframe(variant, data.recs)[i]
    IN  IF variant = "app" THEN report_exposed_app(row) ELSE report_exposed_demo(row)

----------------------------------------------------------------------------
(* The external collaborators.  cause is how a call ended: an HTTP status, *)
(* or the exception raised ("timeout", "connection", "other").              *)

PostCauses == {"200", "500", "timeout", "connection", "other"}

\* a variant that marks the head of the collection when nothing matches
mark_first_or_head(recs, hits) ==
    IF recs = <<>> THEN recs
    ELSE IF hits = {} THEN [recs EXCEPT ![1].reported = IntV("1")]
    ELSE [recs EXCEPT ![SetMin(hits)].reported = IntV("1")]

\* the loop over st.session_state.data: the first record that matches is marked
mark_first(recs, hits) ==
    IF hits = {} THEN recs ELSE [recs EXCEPT ![SetMin(hits)].reported = IntV("1")]

\* a variant that rebuilds every flag from the match
report_to_police_rebuild(recs, ad_id, cause) ==
    CASE cause = "200" ->
           [recs |-> [i \in 1..Len(recs) |->
                        [recs[i] EXCEPT !.reported =
                            IF recs[i].id = StrV(ad_id) THEN IntV("1") ELSE IntV("0")]],
            posted |-> TRUE, ok |-> TRUE, reason |-> "Successfully reported"]
      [] cause = "500" ->
           [recs |-> recs, posted |-> TRUE, ok |-> FALSE,
            reason |-> "Failed to report. Status code"]
      [] OTHER ->
           [recs |-> recs, posted |-> TRUE, ok |-> FALSE,
            reason |-> "Error reporting to police"]

(* report_to_police(ad_id) of app.py.  ad_id is the text of the id column  *)
(* of df; the raw id of each item is compared with that text.  The         *)
(* function returns nothing: reason is the message it shows.                *)
report_to_police(recs, ad_id, cause) ==
    CASE cause = "200" ->
           [recs |-> mark_first(recs, {i \in 1..Len(recs) : recs[i].id = StrV(ad_id)}),
            posted |-> TRUE, ok |-> TRUE, reason |-> "Successfully reported"]
      [] cause = "500" ->
           [recs |-> recs, posted |-> TRUE, ok |-> FALSE,
            reason |-> "Failed to report. Status code"]
      [] OTHER ->
           [recs |-> recs, posted |-> TRUE, ok |-> FALSE,
            reason |-> "Error reporting to police"]

\* a variant that marks every record carrying the id
safe_report_to_police_marking_all(recs, ad_id, cause) ==
    IF ad_id = ""
    THEN [recs |-> recs, posted |-> FALSE, ok |-> FALSE, reason |-> "Invalid Case ID"]
    ELSE CASE cause = "200" ->
                [recs |-> [i \in 1..Len(recs) |->
                             IF PyStr(recs[i].id) = ad_id
                             THEN [recs[i] EXCEPT !.reported = IntV("1")]
                             ELSE recs[i]],
                 posted |-> TRUE, ok |-> TRUE,
                 reason |-> "successfully reported to Law Enforcement"]
           [] OTHER ->
                [recs |-> recs, posted |-> TRUE, ok |-> FALSE,
                 reason |-> "Unexpected error"]

\* safe_report_to_police(ad_id) of app_demo.py
safe_report_to_police(recs, ad_id, cause) ==
    IF ad_id = ""
    THEN [recs |-> recs, posted |-> FALSE, ok |-> FALSE, reason |-> "Invalid Case ID"]
    ELSE CASE cause = "200" ->
                [recs |-> mark_first(recs, {i \in 1..Len(recs) : PyStr(recs[i].id) = ad_id}),
                 posted |-> TRUE, ok |-> TRUE,
                 reason |-> "successfully reported to Law Enforcement"]
           [] cause = "500" ->
                [recs |-> recs, posted |-> TRUE, ok |-> FALSE,
                 reason |-> "Server error: HTTP"]
           [] cause = "timeout" ->
                [recs |-> recs, posted |-> TRUE, ok |-> FALSE,
                 reason |-> "Report timeout - please try again"]
           [] cause = "connection" ->
                [recs |-> recs, posted |-> TRUE, ok |-> FALSE,
                 reason |-> "Connection failed - check network connectivity"]
           [] OTHER ->
                [recs |-> recs, posted |-> TRUE, ok |-> FALSE,
                 reason |-> "Unexpected error"]

submit_report(v, recs, ad_id, cause) ==
    IF v = "app" THEN report_to_police(recs, ad_id, cause)
    ELSE safe_report_to_police(recs, ad_id, cause)

(* The records of a session: a scam ad whose id came as a number and a     *)
(* legitimate ad whose id came as text, each reported or pending.          *)
SessionIds == {IntV("1"), StrV("2")}

SessionRecs ==
    {RawRec(id, BoolV(id.ty = "int"), IntV(rep), StrV("HIGH"), NoneV) :
        id \in SessionIds, rep \in {"0", "1"}}

Payloads == UNION {[1..n -> SessionRecs] : n \in 0..MaxRecs}

(* A response of the data source: status 200 with a `data` array, status   *)
(* 200 with a JSON object that has no `data` field, status 200 with a body *)
(* that is not JSON, status 500, or an exception (a timeout, a connection  *)
(* failure, any other).                                                     *)
Responses ==
    {[cause |-> "200", payload |-> p] : p \in Payloads}
    \cup {[cause |-> c, payload |-> <<>>] :
             c \in {"no_data", "non_json", "500", "timeout", "connection", "other"}}

(* What a load leaves in st.session_state.data: ok tells whether the       *)
(* variant took the response for a successful load.                         *)
\* a variant that appends the new records to the old ones
load_app_merging(d, resp) ==
    CASE resp.cause = "200" -> [data |-> Loaded(d.recs \o resp.payload), ok |-> TRUE]
      [] resp.cause = "no_data" -> [data |-> Loaded(<<>>), ok |-> TRUE]
      [] OTHER -> [data |-> d, ok |-> FALSE]

\* app.py lines 227-235 and 262-274: res_data.get("data", [])
load_app(d, resp) ==
    CASE resp.cause = "200" -> [data |-> Loaded(resp.payload), ok |-> TRUE]
      [] resp.cause = "no_data" -> [data |-> Loaded(<<>>), ok |-> TRUE]
      [] OTHER -> [data |-> d, ok |-> FALSE]

\* load_data_from_api and its callers, app_demo.py lines 84-120, 338-347, 1198-1204
load_demo(d, resp) ==
    CASE resp.cause = "200" -> [data |-> Loaded(resp.payload), ok |-> TRUE]
      [] OTHER -> [data |-> d, ok |-> FALSE]

load(v, d, resp) == IF v = "app" THEN load_app(d, resp) ELSE load_demo(d, resp)

----------------------------------------------------------------------------
(* The interactions.                                                       *)

Op(kind, ok, reason, cause, shown, tgt) ==
    [kind |-> kind, ok |-> ok, reason |-> reason, cause |-> cause,
     shown |-> shown, tgt |-> tgt]

Control == Op("control", TRUE, "", "", 0, 0)

\* the outcome of a load, with the `data` array the response carried
LoadOp(kind, ok, resp) ==
    [kind |-> kind, ok |-> ok, reason |-> "", cause |-> resp.cause,
     shown |-> 0, tgt |-> 0, payload |-> resp.payload]

\* the re-run that ends every interaction
Rerun(d, page, rows, sf, col, asc) ==
    \E out \in Run(variant, d, page, rows, sf, col, asc) :
        /\ view' = out.view
        /\ current_page' = out.page

(* The sort the selectors start with: date_scraped, descending, in app.py  *)
(* (lines 985-1002); the first column, ascending, in app_demo.py (649-660). *)
default_sort_column(v) == IF v = "app" THEN "date_scraped" ELSE "id"

Init ==
    /\ variant \in {"app", "demo"}
    /\ data = NoData
    /\ current_page = 1
    /\ rows_per_page = 2
    /\ scam_filter = "All"
    /\ sort_column = default_sort_column(variant)
    /\ ascending = (variant = "demo")
    /\ view = <<>>
    /\ selection = 0
    /\ lastOp = Op("init", TRUE, "", "", 0, 0)
    /\ calc = [op |-> "none"]

\* the first run of a session: load_initial_data / main load the data
InitialLoad(resp) ==
    /\ ~data.loaded
    /\ LET res == load(variant, data, resp)
       IN  /\ data' = res.data
           /\ lastOp' = LoadOp("load", res.ok, resp)
           /\ Rerun(res.data, current_page, rows_per_page, scam_filter,
                    sort_column, ascending)
    /\ selection' = 0
    /\ UNCHANGED <<variant, rows_per_page, scam_filter, sort_column, ascending, calc>>

\* the "Refresh Data" button
Refresh(resp) ==
    /\ data.loaded
    /\ LET res == load(variant, data, resp)
           page == IF res.ok THEN 1 ELSE current_page
       IN  /\ data' = res.data
           /\ lastOp' = LoadOp("refresh", res.ok, resp)
           /\ Rerun(res.data, page, rows_per_page, scam_filter, sort_column, ascending)
    /\ selection' = 0
    /\ UNCHANGED <<variant, rows_per_page, scam_filter, sort_column, ascending, calc>>

\* the classification selector
SetScamFilter(sf) ==
    /\ data.recs # <<>>
    /\ sf # scam_filter
    /\ scam_filter' = sf
    /\ Rerun(data, current_page, rows_per_page, sf, sort_column, ascending)
    /\ selection' = 0
    /\ lastOp' = Control
    /\ UNCHANGED <<variant, data, rows_per_page, sort_column, ascending, calc>>

\* the sort-field selector and the sort-direction toggle
SessionSortColumns ==
    IF variant = "app" THEN {"date_scraped", "id", "Reported"} ELSE {"id", "Status"}

SetSort(col, asc) ==
    /\ table_rendered
    /\ <<col, asc>> # <<sort_column, ascending>>
    /\ sort_column' = col
    /\ ascending' = asc
    /\ Rerun(data, current_page, rows_per_page, scam_filter, col, asc)
    /\ selection' = 0
    /\ lastOp' = Control
    /\ UNCHANGED <<variant, data, rows_per_page, scam_filter, calc>>

\* the rows-per-page selector: in the sidebar of app.py, above the table of app_demo.py
SetRowsPerPage(r) ==
    /\ variant = "demo" => table_rendered
    /\ r # rows_per_page
    /\ rows_per_page' = r
    /\ Rerun(data, current_page, r, scam_filter, sort_column, ascending)
    /\ selection' = 0
    /\ lastOp' = Control
    /\ UNCHANGED <<variant, data, scam_filter, sort_column, ascending, calc>>

(* show_pagination_controls and the navigation buttons of                  *)
(* render_data_table: First, Previous, Next, Last, and in app.py "Go" on   *)
(* the jump-to-page input (1..total_pages).                                 *)
nav_targets(v, page, total) ==
    IF total <= 1 THEN {}
    ELSE (IF page # 1 THEN {1, page - 1} ELSE {})
         \cup (IF page # total THEN {page + 1, total} ELSE {})
         \cup (IF v = "app" THEN 1..total ELSE {})

GoToPage(n) ==
    /\ table_rendered
    /\ n \in nav_targets(variant, current_page, total_pages_of(view, rows_per_page))
    /\ n # current_page
    /\ Rerun(data, n, rows_per_page, scam_filter, sort_column, ascending)
    /\ selection' = 0
    /\ lastOp' = Control
    /\ UNCHANGED <<variant, data, rows_per_page, scam_filter, sort_column, ascending, calc>>

\* a click on row k of the page: the run shows the detail of the selected record
SelectRow(k) ==
    /\ table_rendered
    /\ k \in 1..Len(page_rows)
    /\ selection' = k
    /\ lastOp' = Op("select", TRUE, "", "", page_rows[k], detail_of(k))
    /\ UNCHANGED <<variant, data, current_page, rows_per_page, scam_filter,
                   sort_column, ascending, view, calc>>

(* The report button of the detail view, with the POST ending in cause.    *)
(* app.py re-runs the script only after a success; app_demo.py always.     *)
Report(cause) ==
    /\ table_rendered
    /\ selection \in 1..Len(page_rows)
    /\ detail_of(selection) # 0
    /\ report_exposed(detail_of(selection))
    /\ LET tgt == detail_of(selection)
           ad_id == dataframe(variant, data.recs)[tgt].id
           res == submit_report(variant, data.recs, ad_id, cause)
       IN  /\ data' = Loaded(res.recs)
           /\ lastOp' = Op("report", res.ok, res.reason,
                           IF res.posted THEN cause ELSE "", page_rows[selection], tgt)
           /\ selection' = IF res.recs = data.recs THEN selection ELSE 0
           /\ IF variant = "app" /\ ~res.ok
              THEN UNCHANGED <<view, current_page>>
              ELSE Rerun(Loaded(res.recs), current_page, rows_per_page, scam_filter,
                         sort_column, ascending)
    /\ UNCHANGED <<variant, rows_per_page, scam_filter, sort_column, ascending, calc>>

Next ==
    \/ \E resp \in Responses : InitialLoad(resp)
    \/ \E resp \in Responses : Refresh(resp)
    \/ \E sf \in {"All", "Scam Only", "Legit Only"} : SetScamFilter(sf)
    \/ \E col \in SessionSortColumns, asc \in BOOLEAN : SetSort(col, asc)
    \/ \E r \in RowsOptions : SetRowsPerPage(r)
    \/ \E n \in 1..MaxRecs : GoToPage(n)
    \/ \E k \in 1..MaxRecs : SelectRow(k)
    \/ \E cause \in PostCauses : Report(cause)

Spec == Init /\ [][Next]_vars

----------------------------------------------------------------------------
(* Properties of a session (specification Spec).                           *)

\* the reported flag of a raw record, as the pipeline reads it
reported_of(rec) == to_int_or_zero(rec.reported)

\* no two records of the collection carry the same id text
unique_ids(recs) ==
    \A i, j \in 1..Len(recs) : PyStr(recs[i].id) = PyStr(recs[j].id) => i = j

\* the ids with a record that is reported, and those with one that is pending
reported_ids(recs) == {PyStr(recs[i].id) : i \in {j \in 1..Len(recs) : reported_of(recs[j]) = 1}}
pending_ids(recs) == {PyStr(recs[i].id) : i \in {j \in 1..Len(recs) : reported_of(recs[j]) = 0}}

(* C1: after the report action on a record of the master collection whose  *)
(* ids are unique, acknowledged with HTTP 200, that record's reported flag *)
(* is 1, whether its id came as a number or as a string.                    *)
C1_AckedReportMarksRecord ==
    (lastOp.kind = "report" /\ lastOp.cause = "200" /\ unique_ids(data.recs))
        => reported_of(data.recs[lastOp.tgt]) = 1

\* the failure a message names
failure_named(reason) ==
    CASE reason \in {"Report timeout - please try again"} -> "timeout"
      [] reason \in {"Connection failed - check network connectivity"} -> "connection"
      [] reason \in {"Server error: HTTP", "Failed to report. Status code"} -> "500"
      [] reason \in {"Unexpected error", "Error reporting to police"} -> "other"
      [] OTHER -> "none"

(* C2: a report submission that fails (timeout, connection error, non-200  *)
(* status, other exception) leaves the master collection as it was and     *)
(* ends in a failure outcome whose reason names which of the four it was.  *)
C2_FailedReportLeavesDataAndNamesCause ==
    [][(lastOp'.kind = "report" /\ lastOp'.cause \notin {"200", ""})
           => /\ data' = data
              /\ ~lastOp'.ok
              /\ failure_named(lastOp'.reason) = lastOp'.cause]_vars

(* C3: the report trigger is exposed for no record whose reported flag is  *)
(* 1, and no POST is issued for such a record: every POST is made for a    *)
(* record that is pending when it is made.                                  *)
C3_NoSecondPost ==
    /\ [](table_rendered =>
            \A k \in 1..Len(page_rows) :
                (detail_of(k) # 0 /\ report_exposed(detail_of(k)))
                    => reported_of(data.recs[detail_of(k)]) # 1)
    /\ [][(lastOp'.kind = "report" /\ lastOp'.cause # "")
              => reported_of(data.recs[lastOp'.tgt]) # 1]_vars

\* a reported record is selected: its detail is on screen
C3_Witness ==
    /\ lastOp.kind = "select"
    /\ lastOp.tgt # 0
    /\ reported_of(data.recs[lastOp.tgt]) = 1
    /\ ~report_exposed(lastOp.tgt)

(* C4 as claimed: an id whose record is reported never has a pending       *)
(* record again, whatever the step, a refresh included.                     *)
C4_NeverPendingAgain ==
    [][\A x \in reported_ids(data.recs) \ pending_ids(data.recs) :
           x \notin pending_ids(data'.recs)]_vars

(* C4 as amended: an id whose record is reported never has a pending       *)
(* record again as long as no load replaces the master collection.          *)
C4_NeverPendingAgainUntilReplaced ==
    [][~(lastOp'.kind \in {"load", "refresh"} /\ lastOp'.ok)
           => \A x \in reported_ids(data.recs) \ pending_ids(data.recs) :
                  x \notin pending_ids(data'.recs)]_vars

\* a refresh failed while a record was reported, and the record still is
C4_Witness ==
    /\ lastOp.kind = "refresh"
    /\ ~lastOp.ok
    /\ reported_ids(data.recs) \ pending_ids(data.recs) # {}

(* C5: the record whose detail (and report trigger) a row selection yields *)
(* carries the id shown in the selected row.                                *)
C5_SelectionYieldsShownId ==
    lastOp.kind = "select"
        => /\ lastOp.tgt # 0
           /\ PyStr(data.recs[lastOp.tgt].id) = PyStr(data.recs[lastOp.shown].id)

----------------------------------------------------------------------------
(* The paginator on its own (specification SpecPage): a table of up to     *)
(* MaxLen rows is cut into pages of calc.size rows, page after page; acc   *)
(* collects the pages taken so far.                                         *)

\* the session is not running
Idle ==
    /\ data = NoData
    /\ current_page = 1
    /\ rows_per_page = 2
    /\ scam_filter = "All"
    /\ sort_column = "id"
    /\ ascending = FALSE
    /\ view = <<>>
    /\ selection = 0
    /\ lastOp = Op("init", TRUE, "", "", 0, 0)

\* a table of n rows, each named by its position
Table(n) == [i \in 1..n |-> i]

InitPage ==
    /\ Idle
    /\ variant \in {"app", "demo"}
    /\ \E n \in 0..MaxLen, p \in 1..MaxPageSize :
           calc = [op |-> "page", df |-> Table(n), size |-> p, num |-> 0,
                   page |-> <<>>, acc |-> <<>>]

TakePage ==
    /\ calc.num < total_pages_of(calc.df, calc.size)
    /\ LET page == paginate_dataframe(calc.df, calc.size, calc.num + 1)
       IN  calc' = [calc EXCEPT !.num = @ + 1, !.page = page, !.acc = @ \o page]
    /\ UNCHANGED session_vars

NextPage == TakePage

SpecPage == InitPage /\ [][NextPage]_vars

(* C6: the page count is ceil(length / size); page n holds the rows at     *)
(* offsets [(n-1)*size, n*size) in order, so every page but the last has   *)
(* size rows and the last has 1..size; the pages in order give the table   *)
(* back; an empty table has zero pages and an empty slice.                  *)
C6_PagesPartitionTable ==
    calc.op = "page" =>
        LET df == calc.df
            p == calc.size
            n == calc.num
            total == total_pages_of(df, p)
        IN  /\ total * p >= Len(df)
            /\ (total - 1) * p < Len(df)
            /\ n >= 1 =>
                 /\ Len(calc.page) = IF n < total THEN p ELSE Len(df) - (total - 1) * p
                 /\ Len(calc.page) \in 1..p
                 /\ \A k \in 1..Len(calc.page) : calc.page[k] = df[(n - 1) * p + k]
            /\ n = total => calc.acc = df
            /\ Len(df) = 0 => total = 0 /\ paginate_dataframe(df, p, 1) = <<>>

\* twelve rows in pages of five: the third and last page holds two rows
C6_Witness ==
    /\ calc.op = "page"
    /\ Len(calc.df) = 12
    /\ calc.size = 5
    /\ calc.num = 3
    /\ calc.page = <<11, 12>>
    /\ calc.acc = calc.df

----------------------------------------------------------------------------
(* The page number on its own (specification SpecPaging): a table whose    *)
(* length changes under the stored page number.  calc.df is the filtered   *)
(* frame and calc.stored the page number the last run found stored.        *)

InitPaging ==
    /\ Idle
    /\ variant \in {"app", "demo"}
    /\ \E n \in 0..MaxLen : calc = [op |-> "paging", df |-> Table(n), stored |-> 1]

\* the run that follows an interaction
Render(df, page, rows) ==
    /\ calc' = [calc EXCEPT !.df = df, !.stored = page]
    /\ rows_per_page' = rows
    /\ current_page' = page_after_render(variant, df, page, rows)
    /\ UNCHANGED <<variant, data, scam_filter, sort_column, ascending, view,
                   selection, lastOp>>

\* a filter change or a report leaves n rows in the table
PagingResize(n) ==
    /\ n # Len(calc.df)
    /\ Render(Table(n), current_page, rows_per_page)

\* the rows-per-page selector
PagingRows(r) ==
    /\ variant = "demo" => Len(calc.df) > 0
    /\ r # rows_per_page
    /\ Render(calc.df, current_page, r)

\* a navigation button
PagingNav(n) ==
    /\ n \in nav_targets(variant, current_page, total_pages_of(calc.df, rows_per_page))
    /\ n # current_page
    /\ Render(calc.df, n, rows_per_page)

NextPaging ==
    \/ \E n \in 0..MaxLen : PagingResize(n)
    \/ \E r \in RowsOptions : PagingRows(r)
    \/ \E n \in 1..MaxLen : PagingNav(n)

SpecPaging == InitPaging /\ [][NextPaging]_vars

(* C7: whenever the page number a run finds stored exceeds the number of   *)
(* pages of the table it renders, the run leaves page number 1.            *)
C7_OutOfRangePageBecomesOne ==
    (calc.op = "paging" /\ calc.stored > total_pages_of(calc.df, rows_per_page))
        => current_page = 1

----------------------------------------------------------------------------
(* The sorter on its own (specification SpecSort): a table of up to        *)
(* MaxSortRecs records with ids of their own is sorted by one column in    *)
(* one direction.                                                           *)

SortRecs ==
    {RawRec(id, f.is_scam, f.reported, t.threat_level, t.date_scraped) :
        id \in {IntV("1"), IntV("2"), IntV("3")},
        f \in {[is_scam |-> BoolV(TRUE), reported |-> IntV("1")],
               [is_scam |-> BoolV(TRUE), reported |-> IntV("0")],
               [is_scam |-> BoolV(FALSE), reported |-> IntV("0")]},
        t \in {[threat_level |-> StrV("HIGH"), date_scraped |-> StrV("2024-03-01T12:00:00Z")],
               [threat_level |-> StrV("MEDIUM"), date_scraped |-> StrV("2024-03-03T12:00:00Z")],
               [threat_level |-> StrV("low"), date_scraped |-> NoneV]}}

InitSort ==
    /\ Idle
    /\ variant \in {"app", "demo"}
    /\ \E n \in 1..MaxSortRecs :
        \E recs \in {r \in [1..n -> SortRecs] : unique_ids(r)} :
         \E col \in SortColumns(variant), asc \in BOOLEAN :
           calc = [op |-> "sort", recs |-> recs, col |-> col, asc |-> asc,
                   done |-> FALSE, out |-> <<>>]

\* the rows the sorter is handed, and the key it sorts them by
sort_input == display_df(variant, dataframe(variant, calc.recs))

sort_key_of(v, rows, col, asc) ==
    IF v = "app" THEN sort_key_app(rows, col, asc) ELSE sort_key_demo(rows, col, asc)

SortTable ==
    /\ ~calc.done
    /\ \E o \in sort_orders(variant, sort_input, calc.col, calc.asc) :
           calc' = [calc EXCEPT !.done = TRUE, !.out = o]
    /\ UNCHANGED session_vars

NextSort == SortTable

SpecSort == InitSort /\ [][NextSort]_vars

(* C8: sorting is stable, ascending and descending, by every column: two   *)
(* rows with equal sort keys come out in the order they went in.           *)
C8_SortIsStable ==
    (calc.op = "sort" /\ calc.done) =>
        LET key == sort_key_of(variant, sort_input, calc.col, calc.asc)
        IN  \A a, b \in 1..Len(calc.out) :
                (a < b /\ key[calc.out[a]] = key[calc.out[b]])
                    => calc.out[a] < calc.out[b]

----------------------------------------------------------------------------
(* The threat category on its own (specification SpecThreat): one raw      *)
(* threat level is categorised by the filter and by the table.             *)

ThreatRaws ==
    {StrV(t) : t \in {"HIGH", "MEDIUM", "LOW", "high", "medium", "Medium", "low",
                      "Low", " High ", "HIGH ", " low", "critical", "n/a", "", " "}}
        \cup {NoneV, IntV("3")}

\* app.py line 747: df["threat_level"] == "HIGH", on the raw column
counts_as_high_app(raw) == raw = StrV("HIGH")

\* app_demo.py line 531: df["threat_level"].astype(str).str.upper() == "HIGH"
counts_as_high_demo(raw) == Upper(PyStr(raw)) = "HIGH"

counts_as_high(v, raw) ==
    IF v = "app" THEN counts_as_high_app(raw) ELSE counts_as_high_demo(raw)

InitThreat ==
    /\ Idle
    /\ variant \in {"app", "demo"}
    /\ \E raw \in ThreatRaws :
           calc = [op |-> "threat", raw |-> raw, filter |-> "", display |-> "",
                   metric |-> ""]

ThreatForFilter ==
    /\ calc.filter = ""
    /\ calc' = [calc EXCEPT !.filter = threat_category(calc.raw)]
    /\ UNCHANGED session_vars

ThreatForDisplay ==
    /\ calc.display = ""
    /\ calc' = [calc EXCEPT !.display = threat_display(variant, calc.raw)]
    /\ UNCHANGED session_vars

\* the record is counted, or not, in the high-threat metric
ThreatForMetric ==
    /\ calc.metric = ""
    /\ calc' = [calc EXCEPT !.metric =
                    IF counts_as_high(variant, calc.raw) THEN "counted" ELSE "not counted"]
    /\ UNCHANGED session_vars

NextThreat == ThreatForFilter \/ ThreatForDisplay \/ ThreatForMetric

SpecThreat == InitThreat /\ [][NextThreat]_vars

(* C9: the category of a record, in the filter and in the table, is one of *)
(* HIGH, MEDIUM, LOW, OTHER, and it is OTHER exactly when the raw value,   *)
(* upper-cased and trimmed, is none of HIGH, MEDIUM, LOW.                   *)
C9_CategoryOfTrimmedUpper ==
    calc.op = "threat" =>
        \A c \in {calc.filter, calc.display} \ {""} :
            /\ c \in BaseLevels \cup {"OTHER"}
            /\ c = "OTHER" <=> Strip(Upper(PyStr(calc.raw))) \notin BaseLevels

----------------------------------------------------------------------------
(* The filter on its own (specification SpecFilter): a table of up to      *)
(* MaxFilterRecs records is filtered under criteria c1 and under criteria  *)
(* c2 that restrict c1 in one respect.  calc.tz tells whether the pandas   *)
(* that runs builds UTC with pytz.                                          *)

FilterRecs ==
    {RawRec(IntV("1"), is_scam, IntV("0"), threat_level, date_scraped) :
        is_scam \in {BoolV(TRUE), BoolV(FALSE), NoneV},
        threat_level \in {StrV(" High "), StrV("critical")},
        date_scraped \in {NoneV, StrV("2024-03-01T00:00:00Z"),
                          StrV("2024-03-02T23:59:59.999999Z"), StrV("2024-03-03T12:00:00Z")}}

FilterCriteria ==
    {Criteria(sf, tf, dr, inc) :
        sf \in {"All", "Scam Only", "Legit Only", "Unknown"},
        tf \in SUBSET {"HIGH", "OTHER"},
        dr \in {NoDateRange, DateRange(1, 2), DateRange(2, 1), DateRange(1, 1)},
        inc \in BOOLEAN}

\* the days a date range covers
range_days(dr) == IF dr.b < dr.a THEN dr.b..dr.a ELSE dr.a..dr.b

narrower_range(dr2, dr1) ==
    /\ dr2.set
    /\ ~dr1.set \/ (range_days(dr2) \subseteq range_days(dr1)
                    /\ range_days(dr2) # range_days(dr1))

(* c2 restricts c1 in one respect, as claimed: a classification            *)
(* restriction, a smaller threat-category set, a narrower date range, or   *)
(* undated records no longer included.                                      *)
restricts(c2, c1) ==
    \/ /\ c1.scam_filter = "All" /\ c2.scam_filter \in {"Scam Only", "Legit Only"}
       /\ c2 = [c1 EXCEPT !.scam_filter = c2.scam_filter]
    \/ /\ c2.threat_filter \subseteq c1.threat_filter
       /\ c2.threat_filter # c1.threat_filter
       /\ c2 = [c1 EXCEPT !.threat_filter = c2.threat_filter]
    \/ /\ narrower_range(c2.date_range, c1.date_range)
       /\ c2 = [c1 EXCEPT !.date_range = c2.date_range]
    \/ /\ c1.include_missing_dates /\ ~c2.include_missing_dates
       /\ c2 = [c1 EXCEPT !.include_missing_dates = FALSE]

\* the same, with a smaller threat-category set that is not empty
restricts_nonempty(c2, c1) ==
    /\ restricts(c2, c1)
    /\ c2.threat_filter # c1.threat_filter => c2.threat_filter # {}

InitFilter ==
    /\ Idle
    /\ variant \in {"app", "demo"}
    /\ \E n \in 0..MaxFilterRecs, tz \in BOOLEAN :
        \E recs \in [1..n -> FilterRecs], c1 \in FilterCriteria :
           /\ variant = "app" => tz
           /\ calc = [op |-> "filter", recs |-> recs, tz |-> tz, c1 |-> c1, c2 |-> c1,
                      done |-> FALSE, out1 |-> <<>>, out2 |-> <<>>]

\* the positions in the input of the rows that pass
passed(recs, c, tz) ==
    LET out == filtered(variant, dataframe(variant, recs), c, tz)
    IN  [k \in 1..Len(out) |-> out[k].idx]

FilterTwice(c2) ==
    /\ ~calc.done
    /\ restricts(c2, calc.c1)
    /\ calc' = [calc EXCEPT !.done = TRUE, !.c2 = c2,
                            !.out1 = passed(calc.recs, calc.c1, calc.tz),
                            !.out2 = passed(calc.recs, c2, calc.tz)]
    /\ UNCHANGED session_vars

\* the table is filtered under c1 alone
FilterOnce ==
    /\ ~calc.done
    /\ calc' = [calc EXCEPT !.done = TRUE,
                            !.out1 = passed(calc.recs, calc.c1, calc.tz),
                            !.out2 = passed(calc.recs, calc.c1, calc.tz)]
    /\ UNCHANGED session_vars

NextFilter ==
    \/ \E c2 \in FilterCriteria : FilterTwice(c2)
    \/ FilterOnce

SpecFilter == InitFilter /\ [][NextFilter]_vars

\* positions of the input, in increasing order: a subsequence of the input
in_input_order(out, n) ==
    /\ \A k \in 1..Len(out) : out[k] \in 1..n
    /\ \A a, b \in 1..Len(out) : a < b => out[a] < out[b]

(* C10 as claimed: a filter result is a subsequence of the input, in input *)
(* order, and criteria that restrict in one respect (classification, a     *)
(* smaller threat-category set, a narrower date range, undated excluded)   *)
(* never give a larger result.                                              *)
C10_RestrictingNeverEnlarges ==
    (calc.op = "filter" /\ calc.done) =>
        /\ in_input_order(calc.out1, Len(calc.recs))
        /\ in_input_order(calc.out2, Len(calc.recs))
        /\ Len(calc.out2) <= Len(calc.out1)

(* C10 as amended: the same, where a smaller threat-category set is a      *)
(* smaller set that is not empty (an empty set filters nothing).           *)
C10_RestrictingNonEmptyNeverEnlarges ==
    (calc.op = "filter" /\ calc.done /\ restricts_nonempty(calc.c2, calc.c1)) =>
        /\ in_input_order(calc.out1, Len(calc.recs))
        /\ in_input_order(calc.out2, Len(calc.recs))
        /\ Len(calc.out2) <= Len(calc.out1)

\* a smaller threat-category set, not empty, dropped a row and kept one
C10_Witness ==
    /\ calc.op = "filter"
    /\ calc.done
    /\ calc.c2.threat_filter # calc.c1.threat_filter
    /\ calc.c2.threat_filter # {}
    /\ Len(calc.out1) = 2
    /\ Len(calc.out2) = 1


\* the positions of the input that satisfy Keep, in input order
kept_positions(recs, Keep(_)) ==
    LET S == {i \in 1..Len(recs) : Keep(recs[i])}
    IN  [k \in 1..Cardinality(S) |->
            CHOOSE i \in S : Cardinality({j \in S : j < i}) = k - 1]

(* C11: with no other criterion set, the classification filter keeps       *)
(* exactly the records whose is_scam is true under "Scam Only", exactly    *)
(* those whose is_scam is false, null or absent under "Legit Only", and    *)
(* every record under "All" or an unknown token.                            *)
C11_ClassificationFilter ==
    (calc.op = "filter" /\ calc.done /\ calc.c1.threat_filter = {}
        /\ ~calc.c1.date_range.set) =>
        calc.out1 =
            kept_positions(calc.recs,
                LAMBDA rec :
                    CASE calc.c1.scam_filter = "Scam Only" -> rec.is_scam = BoolV(TRUE)
                      [] calc.c1.scam_filter = "Legit Only" ->
                             rec.is_scam \in {BoolV(FALSE), NoneV}
                      [] OTHER -> TRUE)


\* the category a raw threat level stands for
category_of(raw) ==
    LET text == Strip(Upper(PyStr(raw)))
    IN  IF text \in BaseLevels THEN text ELSE "OTHER"

(* C12: with no other criterion set, the threat filter passes every record *)
(* when the selected set is empty, and otherwise keeps exactly the records *)
(* whose category (upper-cased, trimmed, OTHER unless HIGH, MEDIUM or LOW) *)
(* is in the set.                                                           *)
C12_ThreatFilter ==
    (calc.op = "filter" /\ calc.done /\ calc.c1.scam_filter \in {"All", "Unknown"}
        /\ ~calc.c1.date_range.set) =>
        calc.out1 =
            kept_positions(calc.recs,
                LAMBDA rec : \/ calc.c1.threat_filter = {}
                             \/ category_of(rec.threat_level) \in calc.c1.threat_filter)

\* a padded, mixed-case HIGH is kept and an unknown level dropped under {HIGH}
C12_Witness ==
    /\ calc.op = "filter"
    /\ calc.done
    /\ calc.c1.scam_filter = "All"
    /\ ~calc.c1.date_range.set
    /\ calc.c1.threat_filter = {"HIGH"}
    /\ Len(calc.recs) = 2
    /\ calc.recs[1].threat_level = StrV(" High ")
    /\ calc.recs[2].threat_level = StrV("critical")
    /\ calc.out1 = <<1>>


(* C13: with no other criterion set, and a date range set, a record passes *)
(* exactly when its parsed date lies between the start of the earlier day  *)
(* and the end of the later day of the range, both included, or it has no  *)
(* parsable date and undated records are included; with no date range set  *)
(* every record passes.                                                     *)
C13_DateFilter ==
    (calc.op = "filter" /\ calc.done /\ calc.c1.scam_filter \in {"All", "Unknown"}
        /\ calc.c1.threat_filter = {}) =>
        LET dr == calc.c1.date_range
            first_day == Min(dr.a, dr.b)
            last_day == Max(dr.a, dr.b)
        IN  calc.out1 =
                kept_positions(calc.recs,
                    LAMBDA rec :
                        LET t == to_datetime(rec.date_scraped)
                        IN  \/ ~dr.set
                            \/ /\ ~t.nan
                               /\ t.v >= first_day * TicksPerDay
                               /\ t.v < (last_day + 1) * TicksPerDay
                            \/ t.nan /\ calc.c1.include_missing_dates)


----------------------------------------------------------------------------
(* The sorter of a text column on its own (specification SpecTextSort): a  *)
(* table of up to MaxTextRecs records is sorted by its id column, whose    *)
(* texts are numbers or not.                                                *)

TextIds == {StrV(t) : t \in {"1", "3", "7", "10", "bad", "B"}}

InitTextSort ==
    /\ Idle
    /\ variant \in {"app", "demo"}
    /\ \E n \in 1..MaxTextRecs :
        \E ids \in {f \in [1..n -> TextIds] : \A i, j \in 1..n : f[i] = f[j] => i = j} :
         \E asc \in BOOLEAN :
           calc = [op |-> "sort",
                   recs |-> [i \in 1..n |->
                               RawRec(ids[i], BoolV(TRUE), IntV("0"), StrV("HIGH"), NoneV)],
                   col |-> "id", asc |-> asc, done |-> FALSE, out |-> <<>>]

SpecTextSort == InitTextSort /\ [][NextSort]_vars

\* out holds every position of 1..n once
is_permutation(out, n) ==
    /\ Len(out) = n
    /\ \A i \in 1..n : \E a \in 1..n : out[a] = i
    /\ \A a, b \in 1..n : out[a] = out[b] => a = b

(* C14: sorting by a text column of which at least 80% of the values parse *)
(* as numbers orders the records by number in the chosen direction, with   *)
(* every record that does not parse after all that do, ascending and       *)
(* descending; below 80% the order is that of the texts, case-sensitive.   *)
C14_NumericSort ==
    (calc.op = "sort" /\ calc.done /\ calc.col = "id") =>
        LET n == Len(calc.recs)
            text(i) == PyStr(calc.recs[i].id)
            parses(i) == ~ParseNum(text(i)).nan
            value(i) == ParseNum(text(i)).v
            in_direction(x, y) == IF calc.asc THEN x <= y ELSE x >= y
            mostly_numeric == 5 * Cardinality({i \in 1..n : parses(i)}) >= 4 * n
        IN  /\ is_permutation(calc.out, n)
            /\ \A a, b \in 1..n : a < b =>
                 LET i == calc.out[a]
                     j == calc.out[b]
                 IN  IF mostly_numeric
                     THEN /\ parses(j) => parses(i)
                          /\ (parses(i) /\ parses(j)) => in_direction(value(i), value(j))
                     ELSE in_direction(StrRank(text(i)), StrRank(text(j)))


\* the rank of a threat category: HIGH, MEDIUM, LOW, OTHER
threat_rank(cat) ==
    CASE cat = "HIGH" -> 0 [] cat = "MEDIUM" -> 1 [] cat = "LOW" -> 2 [] OTHER -> 3

(* C15: sorting by the threat-category column puts the records in the rank *)
(* order HIGH, MEDIUM, LOW, OTHER when ascending and in the reverse rank   *)
(* order when descending.                                                   *)
C15_ThreatRankSort ==
    (calc.op = "sort" /\ calc.done /\ calc.col = "threat_level") =>
        /\ is_permutation(calc.out, Len(calc.recs))
        /\ \A a, b \in 1..Len(calc.out) : a < b =>
             LET x == threat_rank(category_of(calc.recs[calc.out[a]].threat_level))
                 y == threat_rank(category_of(calc.recs[calc.out[b]].threat_level))
             IN  IF calc.asc THEN x <= y ELSE x >= y


(* C16: sorting by the date column orders the records by parsed instant in *)
(* the chosen direction, with every record whose date is missing or does   *)
(* not parse after all dated records, ascending and descending; every      *)
(* record comes out once.                                                   *)
C16_DateSort ==
    (calc.op = "sort" /\ calc.done /\ calc.col = "date_scraped") =>
        /\ is_permutation(calc.out, Len(calc.recs))
        /\ \A a, b \in 1..Len(calc.out) : a < b =>
             LET x == to_datetime(calc.recs[calc.out[a]].date_scraped)
                 y == to_datetime(calc.recs[calc.out[b]].date_scraped)
             IN  /\ ~y.nan => ~x.nan
                 /\ (~x.nan /\ ~y.nan) => IF calc.asc THEN x.v <= y.v ELSE x.v >= y.v


\* the classification column and the reported-status column of the table
RankedColumns(v) == IF v = "app" THEN {"Status", "Reported"} ELSE {"Classification", "Status"}

\* the rank of a display value: 0 and 1 for the mapped values, 2 for any other
label_rank(text) ==
    CASE text \in {"SCAM", "THREAT", "tick", "Reported"} -> 0
      [] text \in {"LEGIT", "SAFE", "cross", "Pending"} -> 1
      [] OTHER -> 2

(* C17: sorting by the classification column or the reported-status column *)
(* puts scam before legitimate and reported before pending when ascending, *)
(* the reverse when descending, and every record whose display value is    *)
(* not in the rank map after all mapped records in both directions.        *)
C17_RankMapSort ==
    (calc.op = "sort" /\ calc.done /\ calc.col \in RankedColumns(variant)) =>
        /\ is_permutation(calc.out, Len(calc.recs))
        /\ \A a, b \in 1..Len(calc.out) : a < b =>
             LET x == label_rank(cell(variant, sort_input[calc.out[a]], calc.col))
                 y == label_rank(cell(variant, sort_input[calc.out[b]], calc.col))
             IN  /\ y < 2 => x < 2
                 /\ (x < 2 /\ y < 2) => IF calc.asc THEN x <= y ELSE x >= y


----------------------------------------------------------------------------
(* Properties of the loads of a session (specification Spec).              *)

(* C18: after a refresh answered with status 200 and a `data` array, the   *)
(* master collection is exactly that array and the page number is 1.       *)
C18_RefreshReplacesAndResetsPage ==
    (lastOp.kind = "refresh" /\ lastOp.cause = "200") =>
        /\ data.loaded
        /\ data.recs = lastOp.payload
        /\ current_page = 1

\* a refresh brought two records while a classification filter was set
C18_Witness ==
    /\ lastOp.kind = "refresh"
    /\ lastOp.cause = "200"
    /\ Len(lastOp.payload) = 2
    /\ scam_filter # "All"
    /\ data.recs = lastOp.payload
    /\ current_page = 1

(* C19: a load that fails (a timeout, a connection failure, a status other *)
(* than 200, a body that is not JSON, a JSON body without a `data` array)  *)
(* leaves the master collection and the page number as they were and ends  *)
(* as a failure.                                                            *)
C19_FailedLoadChangesNothing ==
    [][(lastOp'.kind \in {"load", "refresh"} /\ lastOp'.cause # "200")
           => /\ data'.recs = data.recs
              /\ current_page' = current_page
              /\ ~lastOp'.ok]_vars


----------------------------------------------------------------------------
(* The report function on its own (specification SpecReport): it is called *)
(* with an identifier, which may be the empty text, while the session      *)
(* holds some records, and the service answers the POST, if one is made.   *)

ReportIds == {"", "1", "2"}

ReportRecs ==
    {RawRec(StrV(id), BoolV(TRUE), IntV(rep), StrV("HIGH"), NoneV) :
        id \in ReportIds, rep \in {"0", "1"}}

InitReport ==
    /\ Idle
    /\ variant \in {"app", "demo"}
    /\ \E n \in 0..MaxRecs :
       \E recs \in [1..n -> ReportRecs] :
       \E ad_id \in ReportIds :
           calc = [op |-> "report", recs |-> recs, ad_id |-> ad_id,
                   done |-> FALSE, cause |-> "",
                   res |-> [recs |-> recs, posted |-> FALSE, ok |-> FALSE, reason |-> ""]]

CallReport(cause) ==
    /\ ~calc.done
    /\ calc' = [calc EXCEPT !.done = TRUE,
                            !.cause = cause,
                            !.res = submit_report(variant, calc.recs, calc.ad_id, cause)]
    /\ UNCHANGED session_vars

NextReport == \E cause \in PostCauses : CallReport(cause)

SpecReport == InitReport /\ [][NextReport]_vars

id_matches(recs, ad_id) == {i \in 1..Len(recs) : PyStr(recs[i].id) = ad_id}

(* C21: a report that the service acknowledges with status 200 while no    *)
(* record carries the reported id ends as a success and leaves every       *)
(* record as it was.                                                        *)
C21_AckedReportOfAbsentId ==
    (/\ calc.done
     /\ calc.res.posted
     /\ calc.cause = "200"
     /\ id_matches(calc.recs, calc.ad_id) = {})
        => /\ calc.res.ok
           /\ calc.res.recs = calc.recs

\* id "1" is reported with success while the only records carry id "2"
C21_Witness ==
    /\ calc.done
    /\ calc.res.posted
    /\ calc.cause = "200"
    /\ calc.ad_id = "1"
    /\ Len(calc.recs) = 2
    /\ id_matches(calc.recs, "1") = {}
    /\ \E i \in 1..2 : calc.recs[i].reported = IntV("0")
    /\ calc.res.ok
    /\ calc.res.recs = calc.recs


----------------------------------------------------------------------------
(* The numeric columns on their own (specification SpecCounts): a batch of *)
(* records whose page_like_count, report_count and reported came as        *)
(* numbers, texts or null is normalised column by column.                  *)

MaxCountRecs == 2

CountRaws ==
    {IntV("3"), IntV("-1"), FloatV("2.7"), FloatV("-0.5"), StrV("7"), StrV("bad"), NoneV}

ReportedRaws ==
    {IntV("0"), IntV("1"), IntV("2"), IntV("-1"), StrV("bad"), NoneV}

CountRecs ==
    {[page_like_count |-> a, report_count |-> b, reported |-> c] :
        a \in CountRaws, b \in {IntV("3"), StrV("-2"), FloatV("-1.5")}, c \in ReportedRaws}

\* app.py lines 652-666, app_demo.py lines 214-218: the three numeric columns
numeric_columns(recs) ==
    [i \in 1..Len(recs) |->
        [page_like_count |-> to_int_or_zero(recs[i].page_like_count),
         report_count |-> to_int_or_zero(recs[i].report_count),
         reported |-> to_int_or_zero(recs[i].reported)]]

InitCounts ==
    /\ Idle
    /\ variant \in {"app", "demo"}
    /\ \E n \in 0..MaxCountRecs :
       \E recs \in [1..n -> CountRecs] :
           calc = [op |-> "counts", recs |-> recs, done |-> FALSE, out |-> <<>>]

NormalizeCounts ==
    /\ ~calc.done
    /\ calc' = [calc EXCEPT !.done = TRUE, !.out = numeric_columns(calc.recs)]
    /\ UNCHANGED session_vars

SpecCounts == InitCounts /\ [][NormalizeCounts]_vars

\* a raw value that is missing or does not parse as a number
unparsable(v) == v = NoneV \/ v = StrV("bad")

(* C22: after normalisation every record's page_like_count and             *)
(* report_count is an integer that is not negative, 0 where the raw value  *)
(* was missing or unparsable, and the batch has as many records as before.  *)
C22_CountsAreNonNegative ==
    calc.done =>
        /\ Len(calc.out) = Len(calc.recs)
        /\ \A i \in 1..Len(calc.out) :
              /\ calc.out[i].page_like_count \in Nat
              /\ calc.out[i].report_count \in Nat
              /\ unparsable(calc.recs[i].page_like_count)
                    => calc.out[i].page_like_count = 0
              /\ unparsable(calc.recs[i].report_count)
                    => calc.out[i].report_count = 0

(* C23: every normalised record's reported value is 0 or 1, whatever the   *)
(* raw value was.                                                           *)
C23_ReportedIsZeroOrOne ==
    calc.done => \A i \in 1..Len(calc.out) : calc.out[i].reported \in {0, 1}


----------------------------------------------------------------------------
(* The list-valued analysis fields (specification SpecList): the value of  *)
(* summary, links_found, scam_patterns, red_flags or recommendations of    *)
(* the selected record is turned into the items the detail view shows.     *)

MaxItems == 3

ListV(items) == [ty |-> "list", s |-> "", items |-> items]

ItemTexts == {"a", "b", ""}

ListValues ==
    {ListV(items) : items \in UNION {[1..n -> ItemTexts] : n \in 0..MaxItems}}
    \cup {[ty |-> "str", s |-> t, items |-> <<>>] :
             t \in {"", "a", "3", "[]", "[\"a\", \"b\"]", "[\"a\", \"\"]"}}
    \cup {[ty |-> "none", s |-> "None", items |-> <<>>],
          [ty |-> "int", s |-> "0", items |-> <<>>],
          [ty |-> "int", s |-> "3", items |-> <<>>]}

\* json.loads(text): whether it succeeds with a list, and the list
json_loads(text) ==
    CASE text = "[]" -> [is_list |-> TRUE, items |-> <<>>]
      [] text = "[\"a\", \"b\"]" -> [is_list |-> TRUE, items |-> <<"a", "b">>]
      [] text = "[\"a\", \"\"]" -> [is_list |-> TRUE, items |-> <<"a", "">>]
      [] OTHER -> [is_list |-> FALSE, items |-> <<>>]

\* bool(value) of Python
py_bool(value) ==
    CASE value.ty = "list" -> value.items # <<>>
      [] value.ty = "str" -> value.s # ""
      [] value.ty = "int" -> value.s # "0"
      [] OTHER -> FALSE

\* [item for item in items if item]
non_empty(items) == SelectSeq(items, LAMBDA item : item # "")

\* display_list_section of app.py: the items it renders
display_list_section(value) ==
    IF ~py_bool(value) THEN <<>>
    ELSE LET items ==
                 IF value.ty = "str" /\ json_loads(value.s).is_list
                 THEN json_loads(value.s).items
                 ELSE IF value.ty = "list" THEN value.items
                 ELSE <<value.s>>
         IN  non_empty(items)

(* safe_get_value(case_data, key, []) of app_demo.py.  pd.isna of a list   *)
(* is an array: with two or more elements its truth value raises, and the  *)
(* except clause returns the default; with one element it is that          *)
(* element's; with none the empty list or the default comes back.          *)
safe_get_value(value) ==
    CASE value.ty = "list" -> IF Len(value.items) >= 2 THEN ListV(<<>>) ELSE value
      [] value.ty = "none" -> ListV(<<>>)
      [] value.ty = "str" /\ value.s = "" -> ListV(<<>>)
      [] OTHER -> value

\* render_detailed_view of app_demo.py: the items it writes for one field
render_list_field(value) ==
    LET got == safe_get_value(value)
    IN  IF ~py_bool(got) THEN <<>>
        ELSE IF got.ty = "list" THEN got.items ELSE <<got.s>>

InitList ==
    /\ Idle
    /\ variant \in {"app", "demo"}
    /\ \E value \in ListValues :
           calc = [op |-> "list", value |-> value, done |-> FALSE, out |-> <<>>]

PresentList ==
    /\ ~calc.done
    /\ calc' = [calc EXCEPT !.done = TRUE,
                            !.out = IF variant = "app"
                                    THEN display_list_section(calc.value)
                                    ELSE render_list_field(calc.value)]
    /\ UNCHANGED session_vars

SpecList == InitList /\ [][PresentList]_vars

\* the sequence the field stands for: itself, the decoded array, or the scalar alone
as_sequence(value) ==
    CASE value.ty = "list" -> value.items
      [] value.ty = "str" /\ json_loads(value.s).is_list -> json_loads(value.s).items
      [] value.ty = "none" -> <<>>
      [] value.ty = "int" /\ value.s = "0" -> <<>>
      [] OTHER -> <<value.s>>

(* C24: a list-valued field is presented as its non-empty items in order:  *)
(* a sequence keeps all its non-empty elements, a text that encodes a JSON *)
(* array is decoded, any other scalar is one item, empty items are dropped. *)
C24_ListFieldItems ==
    calc.done => calc.out = non_empty(as_sequence(calc.value))


----------------------------------------------------------------------------
(* Start-up (specification SpecStartup): the two base URLs are read from   *)
(* the environment, each configured or not, the script starts, and the     *)
(* operations that use a URL are attempted while it runs.  calls is the    *)
(* sequence of requests the script has handed to the HTTP library, each    *)
(* with the URL it was given ("" for a URL that is not configured).        *)

MaxCalls == 5

Urls == [MAIN_URL : {"", "http://main"}, MAIL_URL : {"", "http://mail"}]

\* app_demo.py lines 27-30: st.stop() unless both URLs are set; app.py has no check
validated(v, env) == v = "app" \/ (env.MAIN_URL # "" /\ env.MAIL_URL # "")

InitStartup ==
    /\ Idle
    /\ variant \in {"app", "demo"}
    /\ \E env \in Urls :
           calc = [op |-> "startup", env |-> env, phase |-> "start", calls |-> <<>>]

\* the first run of the script: validation, then the initial load
Startup ==
    /\ calc.phase = "start"
    /\ calc' = IF validated(variant, calc.env)
               THEN [calc EXCEPT !.phase = "running",
                                 !.calls = <<[op |-> "load", url |-> calc.env.MAIN_URL]>>]
               ELSE [calc EXCEPT !.phase = "halted"]
    /\ UNCHANGED session_vars

\* the refresh button: requests.get(MAIN_URL)
StartupRefresh ==
    /\ calc.phase = "running"
    /\ Len(calc.calls) < MaxCalls
    /\ calc' = [calc EXCEPT !.calls = Append(@, [op |-> "refresh", url |-> calc.env.MAIN_URL])]
    /\ UNCHANGED session_vars

\* the report button: requests.post(MAIL_URL)
StartupReport ==
    /\ calc.phase = "running"
    /\ Len(calc.calls) < MaxCalls
    /\ calc' = [calc EXCEPT !.calls = Append(@, [op |-> "report", url |-> calc.env.MAIL_URL])]
    /\ UNCHANGED session_vars

NextStartup == Startup \/ StartupRefresh \/ StartupReport

SpecStartup == InitStartup /\ [][NextStartup]_vars

(* C25: when one of the two base URLs is not configured the script halts   *)
(* at start-up: it never runs, no load, refresh or report is attempted and *)
(* no request is made with a missing URL.                                   *)
C25_MissingUrlHalts ==
    (calc.env.MAIN_URL = "" \/ calc.env.MAIL_URL = "") =>
        /\ calc.phase # "running"
        /\ calc.calls = <<>>


----------------------------------------------------------------------------
(* Normalisation applied twice (specification SpecNormalize): a batch of   *)
(* raw records is normalised, and the normalised batch is normalised       *)
(* again.                                                                   *)

MaxNormRecs == 2

NormRecs ==
    {RawRec(id, is_scam, reported, StrV("HIGH"), date) :
        id \in {IntV("1"), StrV("2"), NoneV},
        is_scam \in {BoolV(TRUE), BoolV(FALSE), NoneV},
        reported \in {IntV("0"), IntV("2"), IntV("-1"), FloatV("2.7"), StrV("bad"), NoneV},
        date \in {StrV("2024-03-01T12:00:00Z"), StrV("not a date"), NoneV}}

\* str(n) of an integer
IntText(n) ==
    CASE n = 0 -> "0"
      [] n = 1 -> "1"
      [] n = 2 -> "2"
      [] n = 3 -> "3"
      [] n = 7 -> "7"
      [] n = 10 -> "10"
      [] n = -1 -> "-1"
      [] n = -2 -> "-2"

\* the rows of a normalised DataFrame, read as the records of a DataFrame
as_records(rows) ==
    [i \in 1..Len(rows) |->
        RawRec(StrV(rows[i].id), rows[i].is_scam, IntV(IntText(rows[i].reported)),
               rows[i].threat_level, TsV(rows[i].date_scraped))]

InitNormalize ==
    /\ Idle
    /\ variant \in {"app", "demo"}
    /\ \E n \in 0..MaxNormRecs :
       \E recs \in [1..n -> NormRecs] :
           calc = [op |-> "normalize", recs |-> recs, runs |-> 0,
                   once |-> <<>>, twice |-> <<>>]

Normalize ==
    /\ calc.runs = 0
    /\ calc' = [calc EXCEPT !.runs = 1, !.once = dataframe(variant, calc.recs)]
    /\ UNCHANGED session_vars

NormalizeAgain ==
    /\ calc.runs = 1
    /\ calc' = [calc EXCEPT !.runs = 2,
                            !.twice = dataframe(variant, as_records(calc.once))]
    /\ UNCHANGED session_vars

NextNormalize == Normalize \/ NormalizeAgain

SpecNormalize == InitNormalize /\ [][NextNormalize]_vars

(* C26: normalising a batch that is already normalised returns the same    *)
(* batch.                                                                   *)
C26_NormalizeIsIdempotent ==
    calc.runs = 2 => calc.twice = calc.once

\* two records, one with a number as id, a fractional flag and a parsed date
C26_Witness ==
    /\ calc.runs = 2
    /\ Len(calc.recs) = 2
    /\ \E i \in 1..2 :
          /\ calc.recs[i].id = IntV("1")
          /\ calc.recs[i].reported = FloatV("2.7")
          /\ calc.recs[i].is_scam = NoneV
          /\ ~calc.once[i].date_scraped.nan
          /\ calc.once[i].reported = 2
    /\ calc.twice = calc.once


----------------------------------------------------------------------------
(* Further properties of the page number (specification SpecPaging).       *)

(* C27: after every run the stored page number is at least 1 and at most   *)
(* the number of pages of the table, or 1 when the table has no page.      *)
C27_PageWithinRange ==
    calc.op = "paging" =>
        /\ 1 <= current_page
        /\ current_page <= Max(1, total_pages_of(calc.df, rows_per_page))


----------------------------------------------------------------------------
(* Further properties of the sorter (specification SpecSort).              *)

(* C28: for every sort column and direction the sorted table holds every   *)
(* row of the input exactly once, also when sort keys are missing.         *)
C28_SortIsPermutation ==
    (calc.op = "sort" /\ calc.done) => is_permutation(calc.out, Len(calc.recs))


----------------------------------------------------------------------------
(* Further properties of the report function (specification SpecReport).   *)

\* the positions at which two collections of the same length differ
changed_positions(before, after) == {i \in 1..Len(before) : after[i] # before[i]}

(* C29: a successful report changes at most one record and only its        *)
(* reported flag: the collection keeps its length and order, and of        *)
(* several records with the reported id only the first is marked.          *)
C29_ReportMarksOnlyFirstMatch ==
    (calc.done /\ calc.res.ok) =>
        /\ Len(calc.res.recs) = Len(calc.recs)
        /\ Cardinality(changed_positions(calc.recs, calc.res.recs)) <= 1
        /\ \A i \in changed_positions(calc.recs, calc.res.recs) :
              /\ calc.res.recs[i] = [calc.recs[i] EXCEPT !.reported = IntV("1")]
              /\ i = SetMin(id_matches(calc.recs, calc.ad_id))

\* two pending records carry id "1": the first is marked, the second is not
C29_Witness ==
    /\ calc.done
    /\ calc.res.ok
    /\ calc.ad_id = "1"
    /\ Len(calc.recs) = 2
    /\ \A i \in 1..2 : calc.recs[i].id = StrV("1") /\ calc.recs[i].reported = IntV("0")
    /\ calc.res.recs[1].reported = IntV("1")
    /\ calc.res.recs[2] = calc.recs[2]


----------------------------------------------------------------------------
(* Further properties of the threat category (specification SpecThreat).   *)

(* C30: the threat filter, the table and the high-threat metric classify a *)
(* record alike: the category of the filter is the one displayed, and the  *)
(* record counts as high threat exactly when that category is HIGH.        *)
C30_ThreatCategoryAgrees ==
    (calc.op = "threat" /\ calc.filter # "" /\ calc.display # "" /\ calc.metric # "")
        => /\ calc.display = calc.filter
           /\ (calc.metric = "counted") <=> (calc.filter = "HIGH")

====
